---- MODULE Spec2Model ----
(***************************************************************************)
(* Model of app.py: the PDF tilted-text corrector.  One upload triggers    *)
(* one sequential run of the script: span extraction, OCR fallback, text   *)
(* selection, correction, word diff, report, highlighting and the          *)
(* sentence-level comparison.                                              *)
(*                                                                         *)
(* A Python str is a sequence of one-character strings.  A token list is   *)
(* a sequence of such sequences.  Angles are in hundredths of a degree,    *)
(* so that 1.01 degrees is the integer 101.                                *)
(***************************************************************************)
EXTENDS Integers, Sequences, FiniteSets, TLC

VARIABLES
    pc,                 \* position of the script: idle, ocr, select, compare, display, done, aborted
    doc,                \* the opened document: a sequence of pages, each a sequence of spans
    raw_text,           \* app.py:59
    tilted_words,       \* app.py:59
    ocr_text,           \* app.py:65, Unbound until assigned
    agent_report,       \* app.py:56
    combined_text,      \* app.py:71
    corrected_text,     \* app.py:72
    added,              \* app.py:77
    removed,            \* app.py:77
    final_text_display, \* app.py:97
    df_rows,            \* app.py:115
    html_rows,          \* app.py:114
    exception,          \* the uncaught exception that ended the run, or "none"
    fn,                 \* unit harness: the helper that was applied, or "none"
    args,               \* unit harness: its arguments
    result              \* unit harness: what it returned

vars == <<pc, doc, raw_text, tilted_words, ocr_text, agent_report, combined_text,
          corrected_text, added, removed, final_text_display, df_rows, html_rows,
          exception, fn, args, result>>

run_vars == <<pc, doc, raw_text, tilted_words, ocr_text, agent_report, combined_text,
              corrected_text, added, removed, final_text_display, df_rows, html_rows,
              exception>>

(***************************************************************************)
(* Bounds of the model.                                                    *)
(***************************************************************************)
MaxPages == 2
MaxSpans == 2
MaxTextLen == 4
MaxHighlightLen == 6
MaxTilted == 2
MaxTokens == 4

SeqsUpTo(S, n) == UNION {[1..k -> S] : k \in 0..n}

Range(s) == {s[i] : i \in 1..Len(s)}

Abs(x) == IF x < 0 THEN -x ELSE x

Max(x, y) == IF x >= y THEN x ELSE y

\* Op applied to the value of v
Let(v, Op(_)) == [x \in {v} |-> Op(x)][v]

RECURSIVE Sum(_)
Sum(s) == IF s = <<>> THEN 0 ELSE Head(s) + Sum(Tail(s))

RECURSIVE Repeat(_, _)
Repeat(x, n) == IF n <= 0 THEN <<>> ELSE <<x>> \o Repeat(x, n - 1)

(***************************************************************************)
(* Python str methods used by app.py.                                      *)
(***************************************************************************)
Whitespace == {" ", "\n"}

RECURSIVE lstrip(_)
lstrip(s) ==
    IF s = <<>> THEN s
    ELSE IF Head(s) \in Whitespace THEN lstrip(Tail(s)) ELSE s

RECURSIVE rstrip(_)
rstrip(s) ==
    IF s = <<>> THEN s
    ELSE IF s[Len(s)] \in Whitespace THEN rstrip(SubSeq(s, 1, Len(s) - 1)) ELSE s

\* str.strip()
strip(s) == rstrip(lstrip(s))

\* number of leading non-whitespace characters
RECURSIVE WordLen(_)
WordLen(s) ==
    IF s = <<>> \/ Head(s) \in Whitespace THEN 0 ELSE 1 + WordLen(Tail(s))

\* str.split() with no separator: runs of whitespace separate, no empty strings
RECURSIVE split(_)
split(s) ==
    LET t == lstrip(s) IN
    IF t = <<>> THEN <<>>
    ELSE LET n == WordLen(t) IN <<SubSeq(t, 1, n)>> \o split(SubSeq(t, n + 1, Len(t)))

\* str.split(sep) for a one-character sep: every occurrence separates, empty strings kept
RECURSIVE split_sep(_, _)
split_sep(s, sep) ==
    IF \A i \in 1..Len(s) : s[i] # sep THEN <<s>>
    ELSE LET k == CHOOSE i \in 1..Len(s) : s[i] = sep /\ \A j \in 1..(i - 1) : s[j] # sep
         IN <<SubSeq(s, 1, k - 1)>> \o split_sep(SubSeq(s, k + 1, Len(s)), sep)

\* sep.join(parts)
RECURSIVE join(_, _)
join(sep, parts) ==
    IF parts = <<>> THEN <<>>
    ELSE IF Len(parts) = 1 THEN parts[1]
    ELSE parts[1] \o sep \o join(sep, Tail(parts))

\* dict.get(key, default)
Get(d, key, default) == IF key \in DOMAIN d THEN d[key] ELSE default

(***************************************************************************)
(* extract_with_pymupdf, app.py:17-31.  The block and line loops only      *)
(* visit the spans of a page in order, so a page is its sequence of spans. *)
(***************************************************************************)
TiltThreshold == 100

\* faulty variant: the threshold compared with >=
SpanStepInclusive(acc, span) ==
    LET span_text == strip(Get(span, "text", <<>>)) IN
    IF span_text = <<>> THEN acc
    ELSE LET angle == Abs(Get(span, "angle", 0)) IN
         [text |-> acc.text \o <<" ">> \o span_text,
          tilted_words |-> IF angle >= TiltThreshold
                           THEN acc.tilted_words \o split(span_text)
                           ELSE acc.tilted_words]

\* the body of the span loop, app.py:24-30
SpanStep(acc, span) ==
    LET span_text == strip(Get(span, "text", <<>>)) IN
    IF span_text = <<>> THEN acc
    ELSE LET angle == Abs(Get(span, "angle", 0)) IN
         [text |-> acc.text \o <<" ">> \o span_text,
          tilted_words |-> IF angle > TiltThreshold
                           THEN acc.tilted_words \o split(span_text)
                           ELSE acc.tilted_words]

RECURSIVE SpanLoop(_, _)
SpanLoop(acc, spans) ==
    IF spans = <<>> THEN acc ELSE SpanLoop(SpanStep(acc, Head(spans)), Tail(spans))

RECURSIVE PageLoop(_, _)
PageLoop(acc, pages) ==
    IF pages = <<>> THEN acc ELSE PageLoop(SpanLoop(acc, Head(pages)), Tail(pages))

extract_with_pymupdf(d) ==
    LET acc == PageLoop([text |-> <<>>, tilted_words |-> <<>>], d) IN
    [text |-> strip(acc.text), tilted_words |-> acc.tilted_words]

(***************************************************************************)
(* highlight_tilted, app.py:41-49.  The opening and the closing tag of the *)
(* style marker are one symbol each.                                       *)
(***************************************************************************)
SpanOpen == "<span style='color:green;font-weight:bold'>"
SpanClose == "</span>"

\* faulty variant: a token is marked when a tilted word is a prefix of it
HighlightWordPrefix(w, tilted) ==
    IF \E k \in 1..Len(tilted) :
          Len(tilted[k]) <= Len(w) /\ SubSeq(w, 1, Len(tilted[k])) = tilted[k]
    THEN <<SpanOpen>> \o w \o <<SpanClose>>
    ELSE w

\* the body of the word loop, app.py:45-48
HighlightWord(w, tilted) ==
    IF w \in Range(tilted) THEN <<SpanOpen>> \o w \o <<SpanClose>> ELSE w

RECURSIVE HighlightLoop(_, _)
HighlightLoop(words, tilted) ==
    IF words = <<>> THEN <<>>
    ELSE <<HighlightWord(Head(words), tilted)>> \o HighlightLoop(Tail(words), tilted)

highlight_tilted(text, tilted) == join(<<" ">>, HighlightLoop(split(text), tilted))

(***************************************************************************)
(* difflib.ndiff as app.py:76 and app.py:118 call it: Differ(None,         *)
(* IS_CHARACTER_JUNK).compare(a, b).  Indices are Python's: 0-based, with  *)
(* half-open ranges lo..hi-1, so a[i] of the library is a[i + 1] here.     *)
(* The tokens come from str.split(), so they hold no blank or tab and the  *)
(* character junk filter never applies; the popularity heuristic needs     *)
(* 200 elements and never applies within the bounds.                       *)
(***************************************************************************)

\* length of the common run of a[i:ahi] and b[j:bhi] from their starts
RECURSIVE RunLen(_, _, _, _, _, _)
RunLen(a, b, i, j, ahi, bhi) ==
    IF i < ahi /\ j < bhi /\ a[i + 1] = b[j + 1]
    THEN 1 + RunLen(a, b, i + 1, j + 1, ahi, bhi)
    ELSE 0

SetMax(S) == CHOOSE x \in S : \A y \in S : y <= x
SetMin(S) == CHOOSE x \in S : \A y \in S : x <= y

\* SequenceMatcher.find_longest_match: the longest block a[i:i+k] = b[j:j+k] in the
\* window, of those the one starting earliest in a, of those the earliest in b
find_longest_match(a, b, alo, ahi, blo, bhi) ==
    LET starts == {p \in (alo..(ahi - 1)) \X (blo..(bhi - 1)) :
                      RunLen(a, b, p[1], p[2], ahi, bhi) > 0}
    IN IF starts = {} THEN [a |-> alo, b |-> blo, size |-> 0]
       ELSE LET bestsize == SetMax({RunLen(a, b, p[1], p[2], ahi, bhi) : p \in starts})
                longest == {p \in starts : RunLen(a, b, p[1], p[2], ahi, bhi) = bestsize}
                besti == SetMin({p[1] : p \in longest})
                bestj == SetMin({p[2] : p \in {q \in longest : q[1] = besti}})
            IN [a |-> besti, b |-> bestj, size |-> bestsize]

\* the queue loop of SequenceMatcher.get_matching_blocks, its result sorted
RECURSIVE MatchingBlocksIn(_, _, _, _, _, _)
MatchingBlocksIn(a, b, alo, ahi, blo, bhi) ==
    Let(find_longest_match(a, b, alo, ahi, blo, bhi), LAMBDA x :
        IF x.size = 0 THEN <<>>
        ELSE (IF alo < x.a /\ blo < x.b
              THEN MatchingBlocksIn(a, b, alo, x.a, blo, x.b) ELSE <<>>)
             \o <<x>>
             \o (IF x.a + x.size < ahi /\ x.b + x.size < bhi
                 THEN MatchingBlocksIn(a, b, x.a + x.size, ahi, x.b + x.size, bhi)
                 ELSE <<>>))

\* the loop of get_matching_blocks that merges adjacent blocks
RECURSIVE Collapse(_, _)
Collapse(cur, blocks) ==
    IF blocks = <<>> THEN (IF cur.size > 0 THEN <<cur>> ELSE <<>>)
    ELSE LET nxt == Head(blocks) IN
         IF cur.a + cur.size = nxt.a /\ cur.b + cur.size = nxt.b
         THEN Collapse([cur EXCEPT !.size = cur.size + nxt.size], Tail(blocks))
         ELSE (IF cur.size > 0 THEN <<cur>> ELSE <<>>) \o Collapse(nxt, Tail(blocks))

get_matching_blocks(a, b) ==
    Let(MatchingBlocksIn(a, b, 0, Len(a), 0, Len(b)), LAMBDA blocks :
        Collapse([a |-> 0, b |-> 0, size |-> 0], blocks)
        \o <<[a |-> Len(a), b |-> Len(b), size |-> 0]>>)

\* the loop of SequenceMatcher.get_opcodes, from position (i, j)
RECURSIVE OpcodesFrom(_, _, _)
OpcodesFrom(i, j, blocks) ==
    IF blocks = <<>> THEN <<>>
    ELSE LET m == Head(blocks)
             tag == IF i < m.a /\ j < m.b THEN "replace"
                    ELSE IF i < m.a THEN "delete"
                    ELSE IF j < m.b THEN "insert"
                    ELSE ""
         IN (IF tag # "" THEN <<[tag |-> tag, i1 |-> i, i2 |-> m.a, j1 |-> j, j2 |-> m.b]>>
             ELSE <<>>)
            \o (IF m.size > 0
                THEN <<[tag |-> "equal", i1 |-> m.a, i2 |-> m.a + m.size,
                        j1 |-> m.b, j2 |-> m.b + m.size]>>
                ELSE <<>>)
            \o OpcodesFrom(m.a + m.size, m.b + m.size, Tail(blocks))

get_opcodes(a, b) ==
    Let(get_matching_blocks(a, b), LAMBDA blocks : OpcodesFrom(0, 0, blocks))

\* SequenceMatcher.ratio: 2.0 * matches / length as the fraction <<numerator, denominator>>
ratio(a, b) ==
    Let(get_matching_blocks(a, b), LAMBDA blocks :
        LET matches == Sum([k \in 1..Len(blocks) |-> blocks[k].size])
        IN IF Len(a) + Len(b) > 0 THEN <<2 * matches, Len(a) + Len(b)>> ELSE <<1, 1>>)

\* p < q and p > q for fractions with positive denominators
FracLess(p, q) == p[1] * q[2] < q[1] * p[2]
FracGreater(p, q) == FracLess(q, p)

\* a line of the delta: the two-character prefix is "<tag> ", the rest is text
Line(tag, text) == [tag |-> tag, text |-> text]

\* Differ._dump
RECURSIVE dump(_, _, _, _)
dump(tag, x, lo, hi) ==
    IF lo >= hi THEN <<>> ELSE <<Line(tag, x[lo + 1])>> \o dump(tag, x, lo + 1, hi)

\* Differ._plain_replace
plain_replace(a, alo, ahi, b, blo, bhi) ==
    IF bhi - blo < ahi - alo
    THEN dump("+", b, blo, bhi) \o dump("-", a, alo, ahi)
    ELSE dump("-", a, alo, ahi) \o dump("+", b, blo, bhi)

\* the tag strings built from the character opcodes in Differ._fancy_replace
RECURSIVE IntralineTags(_, _)
IntralineTags(side, ops) ==
    IF ops = <<>> THEN <<>>
    ELSE LET op == Head(ops)
             la == op.i2 - op.i1
             lb == op.j2 - op.j1
             here == IF op.tag = "replace" THEN Repeat("^", IF side = "a" THEN la ELSE lb)
                     ELSE IF op.tag = "delete" THEN (IF side = "a" THEN Repeat("-", la) ELSE <<>>)
                     ELSE IF op.tag = "insert" THEN (IF side = "b" THEN Repeat("+", lb) ELSE <<>>)
                     ELSE Repeat(" ", IF side = "a" THEN la ELSE lb)
         IN here \o IntralineTags(side, Tail(ops))

\* Differ._qformat; _keep_original_ws changes nothing in a line without whitespace
qformat(aline, bline, atags, btags) ==
    LET at == rstrip(atags)
        bt == rstrip(btags)
    IN <<Line("-", aline)>>
       \o (IF at # <<>> THEN <<Line("?", at \o <<"\n">>)>> ELSE <<>>)
       \o <<Line("+", bline)>>
       \o (IF bt # <<>> THEN <<Line("?", bt \o <<"\n">>)>> ELSE <<>>)

BestRatioStart == <<74, 100>>
Cutoff == <<75, 100>>

\* the first pair in the order of the search loops of Differ._fancy_replace: j outermost
FirstPair(S) ==
    CHOOSE p \in S : \A q \in S : p[2] < q[2] \/ (p[2] = q[2] /\ p[1] <= q[1])

\* the ratio of every non-identical pair the search loops of Differ._fancy_replace visit
PairRatios(a, alo, ahi, b, blo, bhi) ==
    [p \in {q \in (alo..(ahi - 1)) \X (blo..(bhi - 1)) : a[q[1] + 1] # b[q[2] + 1]} |->
        ratio(a[p[1] + 1], b[p[2] + 1])]

\* the pair the search loops of Differ._fancy_replace end with: a pair is kept only when
\* it beats the best ratio so far strictly, so it is the best one, and of equally good
\* ones the first visited; real_quick_ratio and quick_ratio are upper bounds on ratio
\* and decide nothing.  <<>> when no pair beat the starting best.
BestPair(a, alo, ahi, b, blo, bhi) ==
    Let(PairRatios(a, alo, ahi, b, blo, bhi), LAMBDA r :
        LET better == {p \in DOMAIN r : FracGreater(r[p], BestRatioStart)}
            top == {p \in better : \A q \in better : ~FracLess(r[p], r[q])}
        IN IF better = {} THEN <<>> ELSE FirstPair(top))

\* eqi, eqj of Differ._fancy_replace: the first identical pair, <<>> when there is none
EqualPair(a, alo, ahi, b, blo, bhi) ==
    LET equal == {p \in (alo..(ahi - 1)) \X (blo..(bhi - 1)) : a[p[1] + 1] = b[p[2] + 1]}
    IN IF equal = {} THEN <<>> ELSE FirstPair(equal)

RECURSIVE fancy_replace(_, _, _, _, _, _)
RECURSIVE fancy_helper(_, _, _, _, _, _)

\* Differ._fancy_helper
fancy_helper(a, alo, ahi, b, blo, bhi) ==
    IF alo < ahi
    THEN (IF blo < bhi THEN fancy_replace(a, alo, ahi, b, blo, bhi)
          ELSE dump("-", a, alo, ahi))
    ELSE (IF blo < bhi THEN dump("+", b, blo, bhi) ELSE <<>>)

\* Differ._fancy_replace from the end of its search loops: best is the close pair
\* found (<<>> when none beat the starting best), eq the first identical pair
FancySynch(a, alo, ahi, b, blo, bhi, best, eq) ==
    LET best_ratio == IF best = <<>> THEN BestRatioStart
                      ELSE ratio(a[best[1] + 1], b[best[2] + 1])
    IN Let(~FracLess(best_ratio, Cutoff), LAMBDA close :
        IF ~close /\ eq = <<>> THEN plain_replace(a, alo, ahi, b, blo, bhi)
        ELSE LET best_i == IF close THEN best[1] ELSE eq[1]
                 best_j == IF close THEN best[2] ELSE eq[2]
                 aelt == a[best_i + 1]
                 belt == b[best_j + 1]
             IN fancy_helper(a, alo, best_i, b, blo, best_j)
                \o (IF close
                    THEN Let(get_opcodes(aelt, belt), LAMBDA ops :
                             qformat(aelt, belt, IntralineTags("a", ops),
                                     IntralineTags("b", ops)))
                    ELSE <<Line(" ", aelt)>>)
                \o fancy_helper(a, best_i + 1, ahi, b, best_j + 1, bhi))

\* Differ._fancy_replace
fancy_replace(a, alo, ahi, b, blo, bhi) ==
    Let(<<BestPair(a, alo, ahi, b, blo, bhi), EqualPair(a, alo, ahi, b, blo, bhi)>>,
        LAMBDA found : FancySynch(a, alo, ahi, b, blo, bhi, found[1], found[2]))

\* the opcode loop of Differ.compare
RECURSIVE CompareLoop(_, _, _)
CompareLoop(a, b, ops) ==
    IF ops = <<>> THEN <<>>
    ELSE LET op == Head(ops) IN
         (IF op.tag = "replace" THEN fancy_replace(a, op.i1, op.i2, b, op.j1, op.j2)
          ELSE IF op.tag = "delete" THEN dump("-", a, op.i1, op.i2)
          ELSE IF op.tag = "insert" THEN dump("+", b, op.j1, op.j2)
          ELSE dump(" ", a, op.i1, op.i2))
         \o CompareLoop(a, b, Tail(ops))

ndiff(a, b) ==
    Let(<<a, b>>, LAMBDA x :
        Let(get_opcodes(x[1], x[2]), LAMBDA ops : CompareLoop(x[1], x[2], ops)))

(***************************************************************************)
(* correct_text, app.py:38-39.  TextBlob.correct() cuts the text into      *)
(* words (runs of word characters), punctuation marks and whitespace       *)
(* characters, replaces each word by the spelling engine's suggestion and  *)
(* joins the pieces again.  The engine's suggestions are an input: a       *)
(* function from the words it changes to their corrections.                *)
(***************************************************************************)
Letters == {"a", "b"}

RECURSIVE LetterRun(_)
LetterRun(s) ==
    IF s = <<>> \/ Head(s) \notin Letters THEN 0 ELSE 1 + LetterRun(Tail(s))

RECURSIVE correct_text(_, _)
correct_text(text, spelling) ==
    IF text = <<>> THEN <<>>
    ELSE LET n == LetterRun(text) IN
         IF n = 0 THEN <<Head(text)>> \o correct_text(Tail(text), spelling)
         ELSE LET w == SubSeq(text, 1, n) IN
              Get(spelling, w, w) \o correct_text(SubSeq(text, n + 1, Len(text)), spelling)

(***************************************************************************)
(* The main script's text selection, app.py:71; ocr_text is bound.         *)
(***************************************************************************)
\* faulty variant: the OCR text preferred whenever there is one
SelectOcrFirst(primary, ocr) == IF ocr # <<>> THEN ocr ELSE primary

Select(primary, ocr) == IF primary # <<>> THEN primary ELSE ocr

(***************************************************************************)
(* The main script's reading of a delta.                                   *)
(***************************************************************************)
RECURSIVE LinesTagged(_, _)
LinesTagged(diff, tag) ==
    IF diff = <<>> THEN <<>>
    ELSE (IF Head(diff).tag = tag THEN <<Head(diff).text>> ELSE <<>>)
         \o LinesTagged(Tail(diff), tag)

\* faulty variant: the two prefixes exchanged
GlobalSummarySwapped(diff) ==
    [added |-> LinesTagged(diff, "-"), removed |-> LinesTagged(diff, "+")]

\* app.py:77-82
GlobalSummary(diff) ==
    [added |-> LinesTagged(diff, "+"), removed |-> LinesTagged(diff, "-")]

GreenOpen == "<span style='color:green'>"
RedOpen == "<span style='color:red'>"

\* app.py:117-125: one rendered entry per line of the delta
RECURSIVE diff_html(_)
diff_html(diff) ==
    IF diff = <<>> THEN <<>>
    ELSE LET d == Head(diff) IN
         <<IF d.tag = "+" THEN [kind |-> "added", text |-> d.text,
                                html |-> <<GreenOpen>> \o d.text \o <<SpanClose>>]
           ELSE IF d.tag = "-" THEN [kind |-> "removed", text |-> d.text,
                                     html |-> <<RedOpen>> \o d.text \o <<SpanClose>>]
           ELSE [kind |-> "unchanged", text |-> d.text, html |-> d.text]>>
         \o diff_html(Tail(diff))

(***************************************************************************)
(* The sentence-level comparison, app.py:107-116.                          *)
(***************************************************************************)
RECURSIVE StripNonEmpty(_)
StripNonEmpty(parts) ==
    IF parts = <<>> THEN <<>>
    ELSE (IF strip(Head(parts)) # <<>> THEN <<strip(Head(parts))>> ELSE <<>>)
         \o StripNonEmpty(Tail(parts))

\* app.py:107-108
Sentences(text) == StripNonEmpty(split_sep(text, "."))

\* faulty variant: the padding put in front
PadLeft(sentences, max_len) == Repeat(<<>>, max_len - Len(sentences)) \o sentences

\* app.py:111-112
Pad(sentences, max_len) == sentences \o Repeat(<<>>, max_len - Len(sentences))

\* app.py:107-116: the pairs the loop visits
SentencePairs(original, corrected) ==
    LET original_sentences == Sentences(original)
        corrected_sentences == Sentences(corrected)
        max_len == Max(Len(original_sentences), Len(corrected_sentences))
        o == Pad(original_sentences, max_len)
        c == Pad(corrected_sentences, max_len)
    IN [i \in 1..max_len |-> <<o[i], c[i]>>]

\* app.py:126
DfRows(pairs) == [i \in 1..Len(pairs) |-> [Original |-> pairs[i][1], Corrected |-> pairs[i][2]]]

\* app.py:117-127
HtmlRows(pairs, tilted) ==
    [i \in 1..Len(pairs) |->
        LET entries == diff_html(ndiff(split(pairs[i][1]), split(pairs[i][2]))) IN
        [Original |-> highlight_tilted(pairs[i][1], tilted),
         Corrected |-> highlight_tilted(pairs[i][2], tilted),
         entries |-> entries,
         Diff |-> join(<<" ">>, [k \in 1..Len(entries) |-> entries[k].html])]]

(***************************************************************************)
(* The report lines, app.py:60, 66, 68, 73, 83.                            *)
(***************************************************************************)
Agent1Line(text, tilted) == [agent |-> 1, words |-> Len(split(text)), tilted |-> tilted]
Agent2Line(text) == [agent |-> 2, failed |-> FALSE, words |-> Len(split(text))]
Agent2FailedLine == [agent |-> 2, failed |-> TRUE]
Agent3Line(text) == [agent |-> 3, length |-> Len(split(text))]
Agent4Line(summary, tilted) ==
    [agent |-> 4, added |-> summary.added, removed |-> summary.removed, tilted |-> tilted]

\* faulty variant: a bare except that records nothing
OcrFailedSilent(report) == report

\* app.py:67-68
OcrFailed(report) == Append(report, Agent2FailedLine)

(***************************************************************************)
(* The inputs of a run.                                                    *)
(***************************************************************************)
\* the value of a name that no assignment has bound yet
Unbound == <<"<unbound>">>

\* documents of at most MaxPages pages holding at most MaxSpans spans in all
PageSizes == UNION {[1..p -> 0..MaxSpans] : p \in 0..MaxPages}

RECURSIVE SumTo(_, _)
SumTo(sizes, k) == IF k = 0 THEN 0 ELSE sizes[k] + SumTo(sizes, k - 1)

MakeDoc(flat, sizes) ==
    [k \in 1..Len(sizes) |-> SubSeq(flat, SumTo(sizes, k - 1) + 1, SumTo(sizes, k))]

DocsOver(S) ==
    {MakeDoc(x[1], x[2]) :
        x \in {y \in SeqsUpTo(S, MaxSpans) \X PageSizes : SumTo(y[2], Len(y[2])) = Len(y[1])}}

\* the spans of the documents a run is given
RunSpans ==
    { [text |-> <<" ">>],
      [text |-> <<"a", "b">>, angle |-> 500],
      [text |-> <<"a", "b", " ", "a", "b">>, angle |-> -101],
      [text |-> <<"a", "b", "b", " ", "b", ".">>, angle |-> 0] }

\* what the OCR engine may recognise on the first page
OcrTexts == { <<>>, <<"\n">>, <<"a", "b", "b", "\n">> }

\* what the spelling engine may suggest
Spellings ==
    { <<>>,
      (<<"a", "b">> :> <<"a", "b", "b">>),
      (<<"a", "b", "b">> :> <<"a", "b">>) }

(***************************************************************************)
(* The run of the script, app.py:54-127.                                   *)
(***************************************************************************)
HarnessIdle == fn = "none" /\ args = <<>> /\ result = <<>>

RunIdle ==
    /\ pc = "idle"
    /\ doc = Unbound
    /\ raw_text = Unbound
    /\ tilted_words = Unbound
    /\ ocr_text = Unbound
    /\ agent_report = <<>>
    /\ combined_text = Unbound
    /\ corrected_text = Unbound
    /\ added = Unbound
    /\ removed = Unbound
    /\ final_text_display = Unbound
    /\ df_rows = Unbound
    /\ html_rows = Unbound
    /\ exception = "none"

Init == RunIdle /\ HarnessIdle

\* app.py:54-56
Upload(d) ==
    /\ pc = "idle"
    /\ doc' = d
    /\ agent_report' = <<>>
    /\ pc' = "extract"
    /\ UNCHANGED <<raw_text, tilted_words, ocr_text, combined_text, corrected_text, added,
                   removed, final_text_display, df_rows, html_rows, exception,
                   fn, args, result>>

\* app.py:59-60
Agent1 ==
    /\ pc = "extract"
    /\ LET r == extract_with_pymupdf(doc) IN
       /\ raw_text' = r.text
       /\ tilted_words' = r.tilted_words
       /\ agent_report' = Append(agent_report, Agent1Line(r.text, r.tilted_words))
    /\ pc' = "ocr"
    /\ UNCHANGED <<doc, ocr_text, combined_text, corrected_text, added, removed,
                   final_text_display, df_rows, html_rows, exception, fn, args, result>>

\* app.py:63-66: the page is there, rendering and recognition succeed
Agent2(text) ==
    /\ pc = "ocr"
    /\ Len(doc) > 0
    /\ ocr_text' = text
    /\ agent_report' = Append(agent_report, Agent2Line(text))
    /\ pc' = "select"
    /\ UNCHANGED <<doc, raw_text, tilted_words, combined_text, corrected_text, added,
                   removed, final_text_display, df_rows, html_rows, exception,
                   fn, args, result>>

\* app.py:63-68: doc[0] raises on a document without pages, and get_pixmap,
\* Image.open or image_to_string may raise on any page; ocr_text is not assigned
Agent2Failed ==
    /\ pc = "ocr"
    /\ agent_report' = OcrFailed(agent_report)
    /\ pc' = "select"
    /\ UNCHANGED <<doc, raw_text, tilted_words, ocr_text, combined_text, corrected_text,
                   added, removed, final_text_display, df_rows, html_rows, exception,
                   fn, args, result>>

\* app.py:71-73
Agent3(spelling) ==
    /\ pc = "select"
    /\ raw_text # <<>> \/ ocr_text # Unbound
    /\ LET text == Select(raw_text, ocr_text)
           corrected == correct_text(text, spelling)
       IN /\ combined_text' = text
          /\ corrected_text' = corrected
          /\ agent_report' = Append(agent_report, Agent3Line(corrected))
    /\ pc' = "compare"
    /\ UNCHANGED <<doc, raw_text, tilted_words, ocr_text, added, removed,
                   final_text_display, df_rows, html_rows, exception, fn, args, result>>

\* app.py:71: raw_text is empty and the name ocr_text is not bound
Agent3NameError ==
    /\ pc = "select"
    /\ raw_text = <<>>
    /\ ocr_text = Unbound
    /\ exception' = "NameError"
    /\ pc' = "aborted"
    /\ UNCHANGED <<doc, raw_text, tilted_words, ocr_text, agent_report, combined_text,
                   corrected_text, added, removed, final_text_display, df_rows, html_rows,
                   fn, args, result>>

\* app.py:76-83
Agent4 ==
    /\ pc = "compare"
    /\ LET summary == GlobalSummary(ndiff(split(combined_text), split(corrected_text))) IN
       /\ added' = summary.added
       /\ removed' = summary.removed
       /\ agent_report' = Append(agent_report, Agent4Line(summary, tilted_words))
    /\ pc' = "display"
    /\ UNCHANGED <<doc, raw_text, tilted_words, ocr_text, combined_text, corrected_text,
                   final_text_display, df_rows, html_rows, exception, fn, args, result>>

\* app.py:88-127
Display ==
    /\ pc = "display"
    /\ final_text_display' = highlight_tilted(corrected_text, tilted_words)
    /\ LET pairs == SentencePairs(combined_text, corrected_text) IN
       /\ df_rows' = DfRows(pairs)
       /\ html_rows' = HtmlRows(pairs, tilted_words)
    /\ pc' = "done"
    /\ UNCHANGED <<doc, raw_text, tilted_words, ocr_text, agent_report, combined_text,
                   corrected_text, added, removed, exception, fn, args, result>>

Next ==
    \/ \E d \in DocsOver(RunSpans) : Upload(d)
    \/ Agent1
    \/ \E text \in OcrTexts : Agent2(text)
    \/ Agent2Failed
    \/ \E spelling \in Spellings : Agent3(spelling)
    \/ Agent3NameError
    \/ Agent4
    \/ Display

Spec == Init /\ [][Next]_vars

(***************************************************************************)
(* The helpers applied on their own to every input within the bounds.      *)
(***************************************************************************)
Apply(name, value) ==
    /\ fn = "none"
    /\ fn' = name
    /\ result' = value
    /\ UNCHANGED args
    /\ UNCHANGED run_vars

\* extract_with_pymupdf on every document of spans with and without text and angle
ExtractTexts == { <<" ">>, <<"a">>, <<" ", "b", " ", " ", "b", " ">> }
ExtractAngles == { -101, -100, 100, 101 }
ExtractSpans ==
    {[text |-> t, angle |-> g] : t \in ExtractTexts, g \in ExtractAngles}
    \cup {[text |-> t] : t \in ExtractTexts}
    \cup {[angle |-> g] : g \in ExtractAngles}
    \cup {<<>>}

InitExtract == RunIdle /\ fn = "none" /\ result = <<>> /\ args \in DocsOver(ExtractSpans)
CallExtract == Apply("extract_with_pymupdf", extract_with_pymupdf(args))
SpecExtract == InitExtract /\ [][CallExtract]_vars

\* highlight_tilted on every text and every list of tilted words
HighlightChars == {"a", ".", " "}
TiltedVocabulary == { <<"a">>, <<"a", ".">>, <<"a", "a">> }

InitHighlight ==
    /\ RunIdle /\ fn = "none" /\ result = <<>>
    /\ args \in [text : SeqsUpTo(HighlightChars, MaxHighlightLen),
                 tilted_words : SeqsUpTo(TiltedVocabulary, MaxTilted)]
CallHighlight == Apply("highlight_tilted", highlight_tilted(args.text, args.tilted_words))
SpecHighlight == InitHighlight /\ [][CallHighlight]_vars

\* the sentence alignment on every pair of texts
AlignChars == {"a", ".", " "}

InitAlign ==
    /\ RunIdle /\ fn = "none" /\ result = <<>>
    /\ args \in [original : SeqsUpTo(AlignChars, MaxTextLen),
                 corrected : SeqsUpTo(AlignChars, MaxTextLen)]
CallAlign == Apply("SentencePairs", SentencePairs(args.original, args.corrected))
SpecAlign == InitAlign /\ [][CallAlign]_vars

\* ndiff and the script's two readings of it on every pair of token lists
DiffTokens == { <<"a", "b">>, <<"a", "b", "b">>, <<"b">> }

InitDiff ==
    /\ RunIdle /\ fn = "none" /\ result = <<>>
    /\ args \in [a : SeqsUpTo(DiffTokens, MaxTokens), b : SeqsUpTo(DiffTokens, MaxTokens)]
CallDiff ==
    Apply("ndiff", Let(ndiff(args.a, args.b), LAMBDA diff :
                       [diff |-> diff, summary |-> GlobalSummary(diff),
                        entries |-> diff_html(diff)]))
SpecDiff == InitDiff /\ [][CallDiff]_vars

(***************************************************************************)
(* Vocabulary of the properties.                                           *)
(***************************************************************************)
RECURSIVE Flatten(_)
Flatten(pages) == IF pages = <<>> THEN <<>> ELSE Head(pages) \o Flatten(Tail(pages))

TrimmedText(span) == strip(IF "text" \in DOMAIN span THEN span.text ELSE <<>>)

BeyondOneDegree(span) ==
    "angle" \in DOMAIN span /\ (span.angle > 100 \/ span.angle < -100)

HasText(span) == TrimmedText(span) # <<>>

NoDuplicates(s) == \A i, j \in 1..Len(s) : s[i] = s[j] => i = j

OcrFailureReported == \E i \in 1..Len(agent_report) :
    agent_report[i].agent = 2 /\ agent_report[i].failed

\* the texts of the entries of the kinds given, in order
RECURSIVE Project(_, _)
Project(entries, kinds) ==
    IF entries = <<>> THEN <<>>
    ELSE (IF Head(entries).kind \in kinds THEN <<Head(entries).text>> ELSE <<>>)
         \o Project(Tail(entries), kinds)

CountTag(diff, tag) == Cardinality({i \in 1..Len(diff) : diff[i].tag = tag})

\* the length of a longest common subsequence, row by row
RECURSIVE LcsRow(_, _, _, _)
LcsRow(cur, prev, x, b) ==
    IF Len(cur) = Len(b) + 1 THEN cur
    ELSE LET j == Len(cur) IN
         LcsRow(Append(cur, IF x = b[j] THEN prev[j] + 1 ELSE Max(prev[j + 1], cur[j])),
                prev, x, b)

RECURSIVE LcsRows(_, _, _)
LcsRows(prev, a, b) ==
    IF a = <<>> THEN prev ELSE LcsRows(LcsRow(<<0>>, prev, Head(a), b), Tail(a), b)

LcsLen(a, b) == LcsRows([j \in 1..(Len(b) + 1) |-> 0], a, b)[Len(b) + 1]

\* the length of a longest common contiguous run
LongestCommonRun(a, b) ==
    SetMax({0} \cup {k \in 1..Len(a) : \E i \in 1..(Len(a) - k + 1), j \in 1..(Len(b) - k + 1) :
                        SubSeq(a, i, i + k - 1) = SubSeq(b, j, j + k - 1)})

\* the fragments of a text between its periods, by position
PeriodsOf(text) == {i \in 1..Len(text) : text[i] = "."}
FragmentsOf(text) ==
    LET cuts == {0} \cup PeriodsOf(text) \cup {Len(text) + 1}
        NextCut(c) == SetMin({d \in cuts : d > c})
    IN {<<c, SubSeq(text, c + 1, NextCut(c) - 1)>> : c \in cuts \ {Len(text) + 1}}

\* the trimmed non-blank fragments of text, in order
SentenceListOf(text) ==
    LET kept == {f \in FragmentsOf(text) : \E i \in 1..Len(f[2]) : f[2][i] \notin Whitespace}
        Rank(f) == Cardinality({g \in kept : g[1] <= f[1]})
    IN [r \in 1..Cardinality(kept) |-> strip((CHOOSE f \in kept : Rank(f) = r)[2])]

(***************************************************************************)
(* C1: in every run in which the OCR step fails, whatever the primary text *)
(* is, the run does not abort: the failure is a report line, the OCR text  *)
(* is the empty string, and the run goes on to completion.                 *)
(***************************************************************************)
C1_OcrFailureNeverAborts ==
    OcrFailureReported =>
        /\ pc # "aborted"
        /\ exception = "none"
        /\ pc = "done" => ocr_text = <<>>

(***************************************************************************)
(* C2: when the extracted text is empty (no pages, no spans or only blank  *)
(* spans, and no OCR text), the run finishes without an exception with an  *)
(* empty corrected text, no Added or Removed entries and no sentence pair. *)
(***************************************************************************)
NoExtractedText ==
    /\ pc \in {"done", "aborted"}
    /\ raw_text = <<>>
    /\ ocr_text \in {<<>>, Unbound}

C2_EmptyInputFinishesEmpty ==
    NoExtractedText =>
        /\ pc = "done"
        /\ exception = "none"
        /\ corrected_text = <<>>
        /\ added = <<>>
        /\ removed = <<>>
        /\ df_rows = <<>>

(***************************************************************************)
(* C3: the text given to the Corrector is the primary text whenever that   *)
(* is non-empty after trimming and the OCR text otherwise, so with a       *)
(* non-empty primary text the OCR result or failure changes nothing.       *)
(***************************************************************************)
C3_SelectedText ==
    pc \in {"compare", "display", "done"} =>
        /\ strip(raw_text) # <<>> => combined_text = raw_text
        /\ strip(raw_text) = <<>> => combined_text = ocr_text /\ ocr_text # Unbound
        /\ raw_text = <<>> /\ ocr_text = <<>> => combined_text = <<>>

C3_Witness ==
    /\ pc = "compare"
    /\ raw_text = <<>>
    /\ ocr_text = <<"a", "b", "b", "\n">>
    /\ combined_text = ocr_text

(***************************************************************************)
(* C4: extract_with_pymupdf records a word as tilted exactly when it is a  *)
(* whitespace-separated word of a span with non-blank text whose angle is  *)
(* beyond 1 degree either way (a missing angle is 0, exactly 1 or -1 is    *)
(* not tilted), and returns the trimmed texts of the non-blank spans in    *)
(* document order joined by single spaces, whatever their angles.          *)
(***************************************************************************)
C4_TiltedIffBeyondThreshold ==
    fn = "extract_with_pymupdf" =>
        LET spans == Flatten(args)
            kept == SelectSeq(spans, HasText)
        IN /\ Range(result.tilted_words) =
                  UNION {Range(split(TrimmedText(spans[i]))) :
                            i \in {k \in 1..Len(spans) :
                                      HasText(spans[k]) /\ BeyondOneDegree(spans[k])}}
           /\ result.text = join(<<" ">>, [i \in 1..Len(kept) |-> TrimmedText(kept[i])])

C4_Witness ==
    /\ fn = "extract_with_pymupdf"
    /\ args = << <<[text |-> <<"a">>, angle |-> 100]>>,
                 <<[text |-> <<" ", "b", " ", " ", "b", " ">>, angle |-> -101]>> >>
    /\ result.tilted_words = << <<"b">>, <<"b">> >>
    /\ result.text = <<"a", " ", "b", " ", " ", "b">>

(***************************************************************************)
(* C5: the entries of the per-sentence diff view are each an Unchanged,    *)
(* Added or Removed token; the Unchanged and Removed ones read in order    *)
(* are the original tokens and the Unchanged and Added ones the corrected  *)
(* tokens, with nothing extra and nothing lost.                            *)
(***************************************************************************)
C5_EntriesAreTheTwoInputs ==
    pc = "done" =>
        \A i \in 1..Len(html_rows) :
            /\ Project(html_rows[i].entries, {"unchanged", "removed"})
                   = split(df_rows[i].Original)
            /\ Project(html_rows[i].entries, {"unchanged", "added"})
                   = split(df_rows[i].Corrected)

C7_PairsPaddedOnTheRight ==
    fn = "SentencePairs" =>
        LET A == SentenceListOf(args.original)
            B == SentenceListOf(args.corrected)
        IN /\ Len(result) = (IF Len(A) >= Len(B) THEN Len(A) ELSE Len(B))
           /\ \A i \in 1..Len(result) :
                  result[i] = <<IF i <= Len(A) THEN A[i] ELSE <<>>,
                                IF i <= Len(B) THEN B[i] ELSE <<>>>>

C7_Witness ==
    /\ fn = "SentencePairs"
    /\ args.original = <<"a", ".">>
    /\ args.corrected = <<"a", ".", " ", "a">>
    /\ result = << << <<"a">>, <<"a">> >>, << <<>>, <<"a">> >> >>

(***************************************************************************)
(* C8: highlight_tilted gives one item per whitespace-separated token of   *)
(* the text, in order, joined by single spaces; a token is wrapped in the  *)
(* style marker exactly when it equals a tilted word (every occurrence,    *)
(* and not a token with punctuation attached); the others pass unchanged.  *)
(***************************************************************************)
C8_HighlightExactTokens ==
    fn = "highlight_tilted" =>
        LET words == split(args.text)
            IsTilted(w) == \E k \in 1..Len(args.tilted_words) : args.tilted_words[k] = w
            items == [i \in 1..Len(words) |->
                         IF IsTilted(words[i]) THEN <<SpanOpen>> \o words[i] \o <<SpanClose>>
                         ELSE words[i]]
        IN /\ result = join(<<" ">>, items)
           /\ words # <<>> => split_sep(result, " ") = items
           /\ Cardinality({i \in 1..Len(result) : result[i] = SpanOpen})
                  = Cardinality({i \in 1..Len(words) : IsTilted(words[i])})

C8_Witness ==
    /\ fn = "highlight_tilted"
    /\ args.text = <<"a", " ", "a", " ", "a", ".">>
    /\ args.tilted_words = << <<"a">> >>
    /\ result = <<SpanOpen, "a", SpanClose, " ", SpanOpen, "a", SpanClose, " ", "a", ".">>

(***************************************************************************)
(* C9: the tilted-word collection built by the extraction and shown in the *)
(* report is a set of distinct words: no word occurs in it more than once. *)
(***************************************************************************)
C9_TiltedWordsAreDistinct ==
    pc \notin {"idle", "extract"} =>
        /\ NoDuplicates(tilted_words)
        /\ \A i \in 1..Len(agent_report) :
               agent_report[i].agent \in {1, 4} => NoDuplicates(agent_report[i].tilted)

(***************************************************************************)
(* C10: the report is append-only with one line per stage in stage order:  *)
(* every step leaves it alone or appends one line, and a run that          *)
(* completes ends with four lines: extraction, OCR (its word count or its  *)
(* failure notice), correction, comparison.                                *)
(***************************************************************************)
LinesAt(p) ==
    IF p \in {"idle", "extract"} THEN 0
    ELSE IF p = "ocr" THEN 1
    ELSE IF p \in {"select", "aborted"} THEN 2
    ELSE IF p = "compare" THEN 3
    ELSE 4

C10_ReportAppendOnly ==
    /\ [][\/ agent_report' = agent_report
          \/ /\ Len(agent_report') = Len(agent_report) + 1
             /\ SubSeq(agent_report', 1, Len(agent_report)) = agent_report]_vars
    /\ [](/\ Len(agent_report) = LinesAt(pc)
          /\ \A i \in 1..Len(agent_report) : agent_report[i].agent = i
          /\ pc = "done" =>
                 /\ Len(agent_report) = 4
                 /\ agent_report[2].failed <=> ocr_text = Unbound)

C10_Witness ==
    /\ pc = "done"
    /\ Len(agent_report) = 4
    /\ agent_report[2] = Agent2FailedLine

====
